---- MODULE Spec2Model ----
(***************************************************************************)
(* The duplicate-detection pipeline of pojono/deduplicator:                *)
(*   getFileList / getAllFiles / scanDirectory   (fileListGenerator.ts)     *)
(*   findDuplicatesBySize                        (findDuplicates.ts)        *)
(*   findDuplicatesByContent / calculateFileHash (contentVerification)      *)
(*   generateDeletionPlan / formatDeletionPlan   (findDuplicates.ts)        *)
(*   main                                        (app.ts)                   *)
(*                                                                         *)
(* A path is the sequence of the UTF-16 code units of its string, so that   *)
(* Array.prototype.sort() without a comparator is modelled by what it      *)
(* compares.  A Map is the sequence of its [key, val] entries in insertion  *)
(* order, which is the order a Map iterates in.  Every await on the file    *)
(* system (stat, readdir, the read stream of a hash) is an operation in     *)
(* flight that completes in its own step, in any order.                     *)
(***************************************************************************)
EXTENDS Integers, Sequences, FiniteSets, TLC

VARIABLES
    tree,          \* the file system below the root: path -> node
    digest,        \* the digest of each file content (md5 of the bytes)
    pc,            \* where main is
    scans,         \* the running scanDirectory calls: directory -> [entries, i, pending]
    ioStat,        \* stat calls in flight
    ioReaddir,     \* readdir calls in flight
    files,         \* getAllFiles: files
    skippedFiles,  \* getAllFiles: skippedFiles
    warned,        \* paths console.warn was called for
    pathToSize,    \* main: pathToSize
    sizeMap,       \* main: sizeMap
    hashMap,       \* findDuplicatesByContent: hashMap
    group,         \* findDuplicatesByContent: index of the size group being processed
    i,             \* findDuplicatesByContent: i, the offset of the current batch
    ioHash,        \* calculateFileHash calls in flight
    results,       \* outcome of the finished hashPromises of the current batch
    contentDuplicates, \* main: contentDuplicates
    report,        \* the [KEEP] / [DELETE] lines written to the report
    filesToDelete, \* main: filesToDelete
    totalBytes,    \* main: totalBytes
    run,           \* 1 in the first run on this tree, 2 in the second
    prev,          \* what the previous run produced
    tree0,         \* the file system as it was when this run started
    deleteFlag,    \* main: deleteFlag, "--delete" is among the arguments
    cwd,           \* the working directory, where the report is created
    locked,        \* the paths whose unlink is rejected
    ioUnlink,      \* deleteFiles: the unlink in flight
    unlinked,      \* the paths unlink was called for, in the order of the calls
    deleted,       \* deleteFiles: results.deleted
    failed         \* deleteFiles: results.failed

vars == <<tree, digest, pc, scans, ioStat, ioReaddir, files, skippedFiles, warned,
          pathToSize, sizeMap, hashMap, group, i, ioHash, results,
          contentDuplicates, report, filesToDelete, totalBytes, run, prev,
          tree0, deleteFlag, cwd, locked, ioUnlink, unlinked, deleted, failed>>

(***************************************************************************)
(* Bounds of the model.                                                    *)
(***************************************************************************)
\* The digest function maps into 1..NumDigests.
NumDigests == 3
\* Files are 1..MaxSize bytes long.
MaxSize == 2

(***************************************************************************)
(* Program constants.  The two batch widths are 100 and 10 in the source;   *)
(* the model scales both to 2 so that a directory of three entries and a    *)
(* size group of three files already need a second batch.                  *)
(***************************************************************************)
WALK_BATCH_SIZE == 2
HASH_BATCH_SIZE == 2
\* path.join puts one "/" between the directory and the entry
Slash == 47

Min(a, b) == IF a < b THEN a ELSE b

Range(s) == {s[k] : k \in DOMAIN s}

(***************************************************************************)
(* Names and paths as code-unit sequences.                                 *)
(***************************************************************************)
\* "@eaDir"
EaDir == <<64, 101, 97, 68, 105, 114>>
\* a mutant: the name without its "@"
EXCLUDED_DIRS_NoAt == {Tail(EaDir)}

EXCLUDED_DIRS == {EaDir}

\* "/r", the resolved root directory
Root == <<Slash, 114>>
\* "a", "B", "c", "d", "e", "d.x"
NameA == <<97>>
NameB == <<66>>
NameC == <<99>>
NameD == <<100>>
NameE == <<101>>
NameDX == <<100, 46, 120>>

\* path.join(currentPath, entry) for a plain entry name
Join(dir, entry) == dir \o <<Slash>> \o entry

\* The directory whose scanDirectory call issued the stat of path p
\* (the currentPath the entry's callback closes over).
Parent(p) ==
    LET last == CHOOSE k \in 1..Len(p) :
                    p[k] = Slash /\ \A j \in (k+1)..Len(p) : p[j] # Slash
    IN SubSeq(p, 1, last - 1)

(***************************************************************************)
(* String comparison and Array.prototype.sort() with no comparator:        *)
(* ascending by UTF-16 code units, a proper prefix first.                   *)
(***************************************************************************)
\* a mutant: compares ignoring case (folds "A".."Z" onto "a".."z")
LexLessFoldCase(a, b) ==
    LET f(c) == IF c >= 65 /\ c <= 90 THEN c + 32 ELSE c
    IN \E k \in 1..(Min(Len(a), Len(b)) + 1) :
        /\ \A j \in 1..(k-1) : f(a[j]) = f(b[j])
        /\ \/ k > Len(a) /\ k <= Len(b)
           \/ k <= Len(a) /\ k <= Len(b) /\ f(a[k]) < f(b[k])

\* a < b of two strings
LexLess(a, b) ==
    \E k \in 1..(Min(Len(a), Len(b)) + 1) :
        /\ \A j \in 1..(k-1) : a[j] = b[j]
        /\ \/ k > Len(a) /\ k <= Len(b)
           \/ k <= Len(a) /\ k <= Len(b) /\ a[k] < b[k]

\* insert x into the sorted sequence s, after the elements not greater than x
InsertSorted(s, x) ==
    LET n == Cardinality({k \in DOMAIN s : ~LexLess(x, s[k])})
    IN SubSeq(s, 1, n) \o <<x>> \o SubSeq(s, n + 1, Len(s))

RECURSIVE SortPaths(_)
SortPaths(s) ==
    IF s = <<>> THEN <<>>
    ELSE InsertSorted(SortPaths(SubSeq(s, 1, Len(s) - 1)), s[Len(s)])

(***************************************************************************)
(* Map: the sequence of its entries [key, val] in insertion order.         *)
(***************************************************************************)
MapHas(m, k) == \E n \in DOMAIN m : m[n].key = k

\* hashMap.get(k).push(x), after hashMap.set(k, []) when k is new
MapPush(m, k, x) ==
    IF MapHas(m, k)
    THEN [n \in DOMAIN m |-> IF m[n].key = k
                             THEN [key |-> k, val |-> Append(m[n].val, x)]
                             ELSE m[n]]
    ELSE Append(m, [key |-> k, val |-> <<x>>])

\* a mutant: paths.length >= 1
RECURSIVE MapFilterLenAtLeast(_, _)
MapFilterLenAtLeast(m, minLen) ==
    IF m = <<>> THEN <<>>
    ELSE LET rest == MapFilterLenAtLeast(Tail(m), minLen)
         IN IF Len(Head(m).val) >= minLen THEN <<Head(m)>> \o rest ELSE rest

\* [...m].filter(([_, paths]) => paths.length > minLen) as a new Map
RECURSIVE MapFilterLen(_, _)
MapFilterLen(m, minLen) ==
    IF m = <<>> THEN <<>>
    ELSE LET rest == MapFilterLen(Tail(m), minLen)
         IN IF Len(Head(m).val) > minLen THEN <<Head(m)>> \o rest ELSE rest

(***************************************************************************)
(* The file system.  A node is what stat, readdir and a read stream see   *)
(* at a path.  A file's content is identified by its length and by which  *)
(* of the contents of that length it is; stat reports the length as size. *)
(***************************************************************************)
\* Two contents of one byte and one content of every greater length.
ContentSeq == <<<<1, 1>>, <<1, 2>>>> \o [k \in 1..(MaxSize - 1) |-> <<k + 1, 1>>]

Contents == Range(ContentSeq)

Digests == 1..NumDigests

\* The digest functions, up to a renaming of the digest values: the
\* injective ones and every way in which contents can collide.
DigestFunctions ==
    {f \in [Contents -> Digests] :
        \A k \in DOMAIN ContentSeq :
            \/ f[ContentSeq[k]] = 1
            \/ \E j \in 1..(k-1) : f[ContentSeq[k]] <= f[ContentSeq[j]] + 1}

FileNode(c, rd) ==
    [kind |-> "file", size |-> c[1], content |-> c, readable |-> rd,
     entries |-> <<>>, listable |-> FALSE, target |-> <<>>]

DirNode(es, ok) ==
    [kind |-> "dir", size |-> 0, content |-> <<0, 0>>, readable |-> FALSE,
     entries |-> es, listable |-> ok, target |-> <<>>]

\* stat fails here: a broken symbolic link, no permission, a vanished file
ErrNode ==
    [kind |-> "err", size |-> 0, content |-> <<0, 0>>, readable |-> FALSE,
     entries |-> <<>>, listable |-> FALSE, target |-> <<>>]

\* a symbolic link to the path t
LinkNode(t) ==
    [kind |-> "link", size |-> 0, content |-> <<0, 0>>, readable |-> FALSE,
     entries |-> <<>>, listable |-> FALSE, target |-> t]

\* What stat(p) and a read stream of p see in the file system t: they follow
\* a symbolic link to its target, and find nothing at a path that is gone
\* or at a link whose target is gone.
StatIn(t, p) ==
    LET q == IF p \in DOMAIN t /\ t[p].kind = "link" THEN t[p].target ELSE p
    IN IF q \in DOMAIN t /\ t[q].kind # "link" THEN t[q] ELSE ErrNode

Stat(p) == StatIn(tree, p)

PathA == Join(Root, NameA)
PathB == Join(Root, NameB)
PathD == Join(Root, NameD)
PathDX == Join(Root, NameDX)
PathDA == Join(PathD, NameA)
PathDE == Join(PathD, NameE)
PathDEC == Join(PathDE, NameC)
PathE == Join(Root, NameE)
PathEA == Join(PathE, NameA)
PathEC == Join(PathE, NameC)

\* Trees that vary what the files hold: four files a, B, d/a, d.x that are
\* enumerated and one below an excluded directory.
ContentTree(ca, cb, cx, unreadable) ==
    (Root :> DirNode(<<NameA, NameB, NameD, NameDX, EaDir>>, TRUE))
    @@ (PathA :> FileNode(ca, PathA \notin unreadable))
    @@ (PathB :> FileNode(cb, PathB \notin unreadable))
    @@ (PathD :> DirNode(<<NameA>>, TRUE))
    @@ (PathDA :> FileNode(<<1, 1>>, PathDA \notin unreadable))
    @@ (PathDX :> FileNode(cx, PathDX \notin unreadable))
    @@ (Join(Root, EaDir) :> DirNode(<<NameA>>, TRUE))
    @@ (Join(Join(Root, EaDir), NameA) :> FileNode(<<1, 1>>, TRUE))

\* Trees that vary what the walker meets: two sibling directories d and e in
\* one batch, an excluded name three levels down, entries whose stat fails
\* and directories that cannot be listed.  Every file holds the same bytes.
WalkTree(rootNode, nodeD, nodeDE, nodeE, nodeA) ==
    (Root :> rootNode)
    @@ (PathD :> nodeD)
    @@ (PathDA :> FileNode(<<1, 1>>, TRUE))
    @@ (PathDE :> nodeDE)
    @@ (Join(PathDE, EaDir) :> DirNode(<<NameA>>, TRUE))
    @@ (Join(Join(PathDE, EaDir), NameA) :> FileNode(<<1, 1>>, TRUE))
    @@ (PathDEC :> FileNode(<<1, 1>>, TRUE))
    @@ (PathE :> nodeE)
    @@ (PathEA :> FileNode(<<1, 1>>, TRUE))
    @@ (PathEC :> FileNode(<<1, 1>>, TRUE))
    @@ (PathA :> nodeA)
    @@ (Join(Root, EaDir) :> FileNode(<<1, 1>>, TRUE))

WalkRoot == DirNode(<<NameD, NameE, NameA, EaDir>>, TRUE)

ContentTrees ==
    {ContentTree(ca, cb, cx, u) :
        ca \in Contents, cb \in Contents \ {<<1, 1>>}, cx \in Contents,
        u \in {{}, {PathA}, {PathDX}}}

WalkTrees ==
    {WalkTree(r, d, de, e, a) :
        r \in {WalkRoot},
        d \in {DirNode(<<NameA, NameE>>, TRUE), DirNode(<<NameA, NameE>>, FALSE), ErrNode},
        de \in {DirNode(<<EaDir, NameC>>, TRUE), DirNode(<<EaDir, NameC>>, FALSE)},
        e \in {DirNode(<<NameA, NameC>>, TRUE), ErrNode},
        a \in {FileNode(<<1, 1>>, TRUE), ErrNode}}
    \cup {WalkTree(r, ErrNode, ErrNode, ErrNode, ErrNode) :
        r \in {DirNode(<<NameD, NameE, NameA, EaDir>>, FALSE),
               DirNode(<<>>, TRUE), FileNode(<<1, 1>>, TRUE), ErrNode}}

\* Trees for the runs that delete, or that write their report into the
\* tree: "/r/a" and "/r/d/a" hold the same byte; "/r/B" is a file, or a
\* symbolic link to "/r/d.x".
DeleteTrees ==
    {[ContentTree(<<1, 1>>, <<1, 2>>, cx, u) EXCEPT ![PathB] = b] :
        cx \in {<<1, 1>>, <<1, 2>>},
        u \in {{}, {PathA}},
        b \in {FileNode(<<1, 2>>, TRUE), LinkNode(PathDX)}}

\* the digest functions told apart by the two contents of these trees
DeleteDigests ==
    {f \in DigestFunctions : \A c \in Contents \ {<<1, 1>>, <<1, 2>>} : f[c] = 1}

\* "/w", a directory that is not below the root
Elsewhere == <<Slash, 119>>

(***************************************************************************)
(* main, up to the first await: getFileList calls stat(absolutePath).      *)
(***************************************************************************)
Init ==
    /\ \/ /\ tree \in ContentTrees /\ digest \in DigestFunctions
          /\ deleteFlag = FALSE /\ cwd = Elsewhere /\ locked = {}
       \/ /\ tree \in WalkTrees /\ digest = [c \in Contents |-> 1]
          /\ deleteFlag = FALSE /\ cwd = Elsewhere /\ locked = {}
       \/ /\ tree \in DeleteTrees /\ digest \in DeleteDigests
          /\ deleteFlag \in BOOLEAN
          /\ cwd \in {Elsewhere, Root}
          /\ locked \in (IF deleteFlag THEN {{}, {PathDA}} ELSE {{}})
    /\ tree0 = tree
    /\ ioUnlink = {}
    /\ unlinked = <<>>
    /\ deleted = <<>>
    /\ failed = <<>>
    /\ pc = "getFileList"
    /\ scans = <<>>
    /\ ioStat = {}
    /\ ioReaddir = {}
    /\ files = <<>>
    /\ skippedFiles = 0
    /\ warned = {}
    /\ pathToSize = <<>>
    /\ sizeMap = <<>>
    /\ hashMap = <<>>
    /\ group = 0
    /\ i = 0
    /\ ioHash = {}
    /\ results = <<>>
    /\ contentDuplicates = <<>>
    /\ report = <<>>
    /\ filesToDelete = <<>>
    /\ totalBytes = 0
    /\ run = 1
    /\ prev = <<>>

(***************************************************************************)
(* scanDirectory.  The state of the walker that one completion changes    *)
(* synchronously is threaded through as a record w:                        *)
(*   scans, ioStat, skippedFiles and returned (scanDirectory(root) is over) *)
(***************************************************************************)
RECURSIVE StartBatch(_, _), EntryDone(_, _), ReturnFrom(_, _)

\* The for loop of scanDirectory(d) at its test, with scans[d].i the value of
\* i: slices the batch and runs every callback of batch.map up to its first
\* await.  An excluded entry's callback is over at once; any other has its
\* stat in flight.  Promise.all of a batch with no stat in flight resolves
\* and the loop goes on.
StartBatch(w, d) ==
    LET s == w.scans[d]
    IN IF s.i >= Len(s.entries) THEN ReturnFrom(w, d)
       ELSE LET batch == SubSeq(s.entries, s.i + 1,
                                Min(s.i + WALK_BATCH_SIZE, Len(s.entries)))
                issued == {Join(d, batch[k]) :
                             k \in {n \in DOMAIN batch : batch[n] \notin EXCLUDED_DIRS}}
                nskip == Cardinality({n \in DOMAIN batch : batch[n] \in EXCLUDED_DIRS})
                w1 == [w EXCEPT !.scans[d].pending = issued,
                                !.ioStat = @ \cup issued,
                                !.skippedFiles = @ + nskip]
            IN IF issued = {}
               THEN StartBatch([w1 EXCEPT !.scans[d].i = @ + WALK_BATCH_SIZE], d)
               ELSE w1

\* The callback of entry p is over (file pushed, recursion returned, or the
\* failure caught): when it was the last of its batch, Promise.all resolves
\* and the parent's loop goes on with the next batch.
EntryDone(w, p) ==
    LET d == Parent(p)
        w1 == [w EXCEPT !.scans[d].pending = @ \ {p}]
    IN IF w1.scans[d].pending = {}
       THEN StartBatch([w1 EXCEPT !.scans[d].i = @ + WALK_BATCH_SIZE], d)
       ELSE w1

\* scanDirectory(d) returns: to the callback that awaited it, or to getAllFiles.
ReturnFrom(w, d) ==
    LET w1 == [w EXCEPT !.scans = [x \in (DOMAIN w.scans) \ {d} |-> w.scans[x]]]
    IN IF d = Root THEN [w1 EXCEPT !.returned = TRUE]
       ELSE EntryDone(w1, d)

Walker ==
    [scans |-> scans, ioStat |-> ioStat, skippedFiles |-> skippedFiles,
     returned |-> FALSE]

\* a mutant: main goes on once two files are found, the walk not awaited
AfterWalkUnawaited(w, fs) ==
    /\ scans' = w.scans
    /\ ioStat' = w.ioStat
    /\ skippedFiles' = w.skippedFiles
    /\ pc' = IF ~w.returned /\ Len(fs) < 2 THEN "scan"
             ELSE IF Len(fs) = 0 THEN "done" ELSE "size"

\* a mutant: no test for the empty list, main waits for a first file
AfterWalkNoEmptyTest(w, fs) ==
    /\ scans' = w.scans
    /\ ioStat' = w.ioStat
    /\ skippedFiles' = w.skippedFiles
    /\ pc' = IF ~w.returned \/ Len(fs) = 0 THEN "scan" ELSE "size"

\* getAllFiles returns files, getFileList returns them, and main tests
\* fileList.length === 0.
AfterWalk(w, fs) ==
    /\ scans' = w.scans
    /\ ioStat' = w.ioStat
    /\ skippedFiles' = w.skippedFiles
    /\ pc' = IF ~w.returned THEN "scan"
             ELSE IF Len(fs) = 0 THEN "done" ELSE "size"

\* a mutant: anything that stat finds passes the validation
isDirectoryOrFile(n) == n.kind \in {"dir", "file"}

\* stats.isDirectory()
isDirectory(n) == n.kind = "dir"

\* getFileList: stat(absolutePath) completes.  A rejected stat and a root that
\* is no directory both end in the catch that calls process.exit(1).
StatRoot ==
    /\ pc = "getFileList"
    /\ IF isDirectory(Stat(Root))
       THEN /\ pc' = "scan"
            /\ ioReaddir' = {Root}
       ELSE /\ pc' = "fatal"
            /\ UNCHANGED ioReaddir
    /\ UNCHANGED <<tree, digest, scans, ioStat, files, skippedFiles, warned,
                   pathToSize, sizeMap, hashMap, group, i, ioHash, results,
                   contentDuplicates, report, filesToDelete, totalBytes, run, prev>>
    /\ UNCHANGED <<tree0, deleteFlag, cwd, locked, ioUnlink, unlinked, deleted, failed>>

\* a mutant: the recursion is not inside the callback's try
ListingFatalAnywhere(d) == TRUE

\* Where a rejected readdir(d) ends: scanDirectory(root) is awaited by
\* getAllFiles with no try around it, so the rejection reaches getFileList's
\* catch and process.exit(1); scanDirectory of any other directory is
\* awaited inside the try of the parent's callback.
ListingFatal(d) == d = Root

\* readdir(d) completes, with the entries or with a rejection that throws out
\* of scanDirectory(d).
ReaddirComplete(d) ==
    /\ pc = "scan"
    /\ d \in ioReaddir
    /\ ioReaddir' = ioReaddir \ {d}
    /\ IF tree[d].listable
       THEN /\ AfterWalk(StartBatch(
                   [Walker EXCEPT !.scans = (d :> [entries |-> tree[d].entries,
                                                   i |-> 0, pending |-> {}]) @@ scans],
                   d), files)
            /\ UNCHANGED warned
       ELSE IF ListingFatal(d)
            THEN /\ pc' = "fatal"
                 /\ UNCHANGED <<scans, ioStat, skippedFiles, warned>>
            ELSE /\ warned' = warned \cup {d}
                 /\ AfterWalk(EntryDone(Walker, d), files)
    /\ UNCHANGED <<tree, digest, files, pathToSize, sizeMap, hashMap, group, i,
                   ioHash, results, contentDuplicates, report, filesToDelete,
                   totalBytes, run, prev>>
    /\ UNCHANGED <<tree0, deleteFlag, cwd, locked, ioUnlink, unlinked, deleted, failed>>

\* stat(fullPath) of an entry completes.
StatComplete(p) ==
    /\ pc = "scan"
    /\ p \in ioStat
    /\ LET w == [Walker EXCEPT !.ioStat = @ \ {p}]
       IN CASE Stat(p).kind = "dir" ->
                 /\ ioReaddir' = ioReaddir \cup {p}
                 /\ AfterWalk(w, files)
                 /\ UNCHANGED <<files, warned>>
            [] Stat(p).kind = "file" ->
                 /\ files' = Append(files, [path |-> p, size |-> Stat(p).size])
                 /\ AfterWalk(EntryDone(w, p), files')
                 /\ UNCHANGED <<ioReaddir, warned>>
            [] OTHER ->
                 /\ warned' = warned \cup {p}
                 /\ AfterWalk(EntryDone(w, p), files)
                 /\ UNCHANGED <<ioReaddir, files>>
    /\ UNCHANGED <<tree, digest, pathToSize, sizeMap, hashMap, group, i, ioHash,
                   results, contentDuplicates, report, filesToDelete, totalBytes,
                   run, prev>>
    /\ UNCHANGED <<tree0, deleteFlag, cwd, locked, ioUnlink, unlinked, deleted, failed>>

(***************************************************************************)
(* findDuplicatesBySize                                                    *)
(***************************************************************************)
\* First pass: tempMap[file.size].push(file.path) for every file in order.
RECURSIVE TempMap(_)
TempMap(fs) ==
    IF fs = <<>> THEN <<>>
    ELSE LET t == TempMap(SubSeq(fs, 1, Len(fs) - 1))
             f == fs[Len(fs)]
         IN IF f.size \in DOMAIN t
            THEN [t EXCEPT ![f.size] = Append(@, f.path)]
            ELSE (f.size :> <<f.path>>) @@ t

\* Object.entries of an object whose keys are integers: ascending keys.
RECURSIVE ObjectEntries(_, _)
ObjectEntries(t, keys) ==
    IF keys = {} THEN <<>>
    ELSE LET k == CHOOSE x \in keys : \A y \in keys : x <= y
         IN <<[key |-> k, val |-> t[k]]>> \o ObjectEntries(t, keys \ {k})

\* a mutant: keeps every size, as filterDuplicates now does
findDuplicatesBySizeNoFilter(fs) ==
    LET tempMap == TempMap(fs)
    IN ObjectEntries(tempMap, DOMAIN tempMap)

\* Second pass: only the sizes with paths.length > 1 are set in sizeMap.
findDuplicatesBySize(fs) ==
    LET tempMap == TempMap(fs)
    IN MapFilterLen(ObjectEntries(tempMap, DOMAIN tempMap), 1)

\* new Map(fileList.map(file => [file.path, file.size])): the last record of
\* a path wins.
PathSizeIndex(fs) ==
    [p \in {fs[k].path : k \in DOMAIN fs} |->
        fs[CHOOSE k \in DOMAIN fs :
              fs[k].path = p /\ \A j \in DOMAIN fs : fs[j].path = p => j <= k].size]

(***************************************************************************)
(* findDuplicatesByContent                                                 *)
(***************************************************************************)
\* [...sizeMap.entries()].sort(([sizeA], [sizeB]) => sizeA - sizeB), stable
RECURSIVE SortBySize(_)
SortBySize(m) ==
    IF m = <<>> THEN <<>>
    ELSE LET rest == SortBySize(SubSeq(m, 1, Len(m) - 1))
             e == m[Len(m)]
             n == Cardinality({k \in DOMAIN rest : rest[k].key <= e.key})
         IN SubSeq(rest, 1, n) \o <<e>> \o SubSeq(rest, n + 1, Len(rest))

sortedGroups == SortBySize(sizeMap)

\* a mutant: the rest of the group is hashed at once
BatchToTheEnd(paths, off) == SubSeq(paths, off + 1, Len(paths))

\* paths.slice(i, i + BATCH_SIZE)
Batch(paths, off) == SubSeq(paths, off + 1, Min(off + HASH_BATCH_SIZE, Len(paths)))

\* The two nested for loops at the inner loop's test, with hashMap h, the
\* group index g and the offset off: runs on to the next await
\* Promise.all(hashPromises), where every hash of the batch is in flight, or
\* to the end of the outer loop.
RECURSIVE VerifyLoop(_, _, _)
VerifyLoop(h, g, off) ==
    IF g > Len(sortedGroups)
    THEN [hashMap |-> h, group |-> g, i |-> off, ioHash |-> {}, over |-> TRUE]
    ELSE LET paths == sortedGroups[g].val
         IN IF Len(paths) <= 1 \/ off >= Len(paths)
            THEN VerifyLoop(h, g + 1, 0)
            ELSE [hashMap |-> h, group |-> g, i |-> off,
                  ioHash |-> Range(Batch(paths, off)), over |-> FALSE]

\* a mutant: a failed hash is grouped under the digest 1 instead of skipped
RECURSIVE GroupResultsKeepNull(_, _, _)
GroupResultsKeepNull(h, batch, res) ==
    IF batch = <<>> THEN h
    ELSE LET p == Head(batch)
             h1 == MapPush(h, IF res[p] = 0 THEN 1 ELSE res[p], p)
         IN GroupResultsKeepNull(h1, Tail(batch), res)

\* a mutant: the first failed hash ends the grouping of its batch
RECURSIVE GroupResultsStopAtNull(_, _, _)
GroupResultsStopAtNull(h, batch, res) ==
    IF batch = <<>> THEN h
    ELSE LET p == Head(batch)
         IN IF res[p] = 0 THEN h
            ELSE GroupResultsStopAtNull(MapPush(h, res[p], p), Tail(batch), res)

\* for (const result of results): a null result is skipped, any other is
\* pushed to the array of its hash.  res maps a path to its hash, or to 0
\* for null.
RECURSIVE GroupResults(_, _, _)
GroupResults(h, batch, res) ==
    IF batch = <<>> THEN h
    ELSE LET p == Head(batch)
             h1 == IF res[p] = 0 THEN h ELSE MapPush(h, res[p], p)
         IN GroupResults(h1, Tail(batch), res)

\* calculateFileHash: the md5 of the bytes read, or a rejection (0)
calculateFileHash(p) ==
    IF Stat(p).kind = "file" /\ Stat(p).readable THEN digest[Stat(p).content] ELSE 0

(***************************************************************************)
(* generateDeletionPlan, formatDeletionPlan and the report of main         *)
(***************************************************************************)
\* sortedPaths.slice(1)
Slice1(s) == IF s = <<>> THEN <<>> ELSE Tail(s)

\* a mutant: keeps the first path found instead of the smallest
RECURSIVE generateDeletionPlanUnsorted(_)
generateDeletionPlanUnsorted(m) ==
    IF m = <<>> THEN <<>>
    ELSE Slice1(Head(m).val) \o generateDeletionPlanUnsorted(Tail(m))

RECURSIVE generateDeletionPlan(_)
generateDeletionPlan(m) ==
    IF m = <<>> THEN <<>>
    ELSE Slice1(SortPaths(Head(m).val)) \o generateDeletionPlan(Tail(m))

\* pathToSize.get(path) || 0
SizeOf(index, p) == IF p \in DOMAIN index THEN index[p] ELSE 0

\* a mutant: counts the files instead of adding their sizes
formatDeletionPlanCount(plan, index) == Len(plan)

RECURSIVE formatDeletionPlan(_, _)
formatDeletionPlan(plan, index) ==
    IF plan = <<>> THEN 0
    ELSE SizeOf(index, Head(plan)) + formatDeletionPlan(Tail(plan), index)

\* a mutant: the report lists the paths of a group as they were found
RECURSIVE ReportLinesAsFound(_, _)
ReportLinesAsFound(m, index) ==
    IF m = <<>> THEN <<>>
    ELSE LET paths == Head(m).val
             del == Slice1(paths)
         IN <<[tag |-> "Size", size |-> index[paths[1]], copies |-> Len(paths)],
              [tag |-> "KEEP", path |-> paths[1]]>>
            \o [k \in DOMAIN del |-> [tag |-> "DELETE", path |-> del[k]]]
            \o ReportLinesAsFound(Tail(m), index)

\* The lines main writes for one group, then for the next.
RECURSIVE ReportLines(_, _)
ReportLines(m, index) ==
    IF m = <<>> THEN <<>>
    ELSE LET paths == Head(m).val
             sortedPaths == SortPaths(paths)
             del == Slice1(sortedPaths)
         IN <<[tag |-> "Size", size |-> index[paths[1]], copies |-> Len(paths)],
              [tag |-> "KEEP", path |-> sortedPaths[1]]>>
            \o [k \in DOMAIN del |-> [tag |-> "DELETE", path |-> del[k]]]
            \o ReportLines(Tail(m), index)

(***************************************************************************)
(* main after getFileList                                                  *)
(***************************************************************************)
\* pathToSize and sizeMap are built; with sizeMap.size === 0 main returns,
\* else findDuplicatesByContent runs up to its first await.
GroupBySize ==
    /\ pc = "size"
    /\ pathToSize' = PathSizeIndex(files)
    /\ sizeMap' = findDuplicatesBySize(files)
    /\ IF Len(sizeMap') = 0
       THEN /\ pc' = "done"
            /\ UNCHANGED <<hashMap, group, i, ioHash>>
       ELSE LET v == VerifyLoop(<<>>, 1, 0)'
            IN /\ pc' = "content"
               /\ hashMap' = v.hashMap
               /\ group' = v.group
               /\ i' = v.i
               /\ ioHash' = v.ioHash
    /\ UNCHANGED <<tree, digest, scans, ioStat, ioReaddir, files, skippedFiles,
                   warned, results, contentDuplicates, report, filesToDelete,
                   totalBytes, run, prev>>
    /\ UNCHANGED <<tree0, deleteFlag, cwd, locked, ioUnlink, unlinked, deleted, failed>>

\* One hashPromise of the batch settles.  When it is the last, Promise.all
\* resolves, the results are grouped in the order of the batch and the loops
\* run on; after the last group the map is filtered and main goes on.
HashComplete(p) ==
    /\ pc = "content"
    /\ p \in ioHash
    /\ LET hash == calculateFileHash(p)
           res == (p :> hash) @@ results
       IN /\ warned' = IF hash = 0 THEN warned \cup {p} ELSE warned
          /\ IF ioHash = {p}
             THEN LET batch == Batch(sortedGroups[group].val, i)
                      v == VerifyLoop(GroupResults(hashMap, batch, res),
                                      group, i + HASH_BATCH_SIZE)
                  IN /\ hashMap' = v.hashMap
                     /\ group' = v.group
                     /\ i' = v.i
                     /\ ioHash' = v.ioHash
                     /\ results' = <<>>
                     /\ IF v.over
                        THEN /\ contentDuplicates' = MapFilterLen(v.hashMap, 1)
                             /\ pc' = IF Len(contentDuplicates') = 0
                                      THEN "done" ELSE "report"
                        ELSE UNCHANGED <<contentDuplicates, pc>>
             ELSE /\ ioHash' = ioHash \ {p}
                  /\ results' = res
                  /\ UNCHANGED <<hashMap, group, i, contentDuplicates, pc>>
    /\ UNCHANGED <<tree, digest, scans, ioStat, ioReaddir, files, skippedFiles,
                   pathToSize, sizeMap, report, filesToDelete, totalBytes, run, prev>>
    /\ UNCHANGED <<tree0, deleteFlag, cwd, locked, ioUnlink, unlinked, deleted, failed>>

\* the file name main builds from the time stamp: "dup1", "dup2"
ReportName(n) == <<100, 117, 112, 48 + n>>

\* createWriteStream(outputFile, {flags: 'w'}) in the working directory: when
\* that is the root, the tree has one more file, longer than the others.
WithReport(t, dir, n) ==
    IF dir \in DOMAIN t /\ t[dir].kind = "dir"
    THEN (Join(dir, ReportName(n)) :> FileNode(<<MaxSize + 1, 1>>, TRUE))
         @@ [t EXCEPT ![dir].entries = Append(@, ReportName(n))]
    ELSE t

\* a mutant: deletes without the flag
ShouldDeleteAlways == TRUE

\* if (deleteFlag)
ShouldDelete == deleteFlag

\* The report is written, then the plan and its total are computed; with
\* --delete, deleteFiles is called and runs up to its first await unlink.
ReportAndPlan ==
    /\ pc = "report"
    /\ tree' = WithReport(tree, cwd, run)
    /\ report' = ReportLines(contentDuplicates, pathToSize)
    /\ filesToDelete' = generateDeletionPlan(contentDuplicates)
    /\ totalBytes' = formatDeletionPlan(filesToDelete', pathToSize)
    /\ IF ShouldDelete /\ filesToDelete' # <<>>
       THEN /\ pc' = "delete"
            /\ ioUnlink' = {filesToDelete'[1]}
            /\ unlinked' = <<filesToDelete'[1]>>
       ELSE /\ pc' = "done"
            /\ UNCHANGED <<ioUnlink, unlinked>>
    /\ UNCHANGED <<digest, scans, ioStat, ioReaddir, files, skippedFiles,
                   warned, pathToSize, sizeMap, hashMap, group, i, ioHash, results,
                   contentDuplicates, run, prev>>
    /\ UNCHANGED <<tree0, deleteFlag, cwd, locked, deleted, failed>>

(***************************************************************************)
(* deleteFiles                                                             *)
(***************************************************************************)
\* unlink(p) removes the directory entry p: the file, or the symbolic link
\* itself when p is one.
Unlink(t, p) ==
    [x \in (DOMAIN t) \ {p} |->
        IF x = Parent(p)
        THEN [t[x] EXCEPT !.entries = SelectSeq(@, LAMBDA e : e # SubSeq(p, Len(x) + 2, Len(p)))]
        ELSE t[x]]

\* a mutant: no try around unlink, the first rejection ends the loop
NextToUnlinkUntilFailure(n, ok) ==
    IF ok /\ n < Len(filesToDelete) THEN n + 1 ELSE 0

\* for (const filePath of filesToDelete), after the n-th path was handled:
\* the index of the next path, or 0 when the loop is over
NextToUnlink(n, ok) ==
    IF n < Len(filesToDelete) THEN n + 1 ELSE 0

\* await unlink(filePath) settles: the path goes to results.deleted, or the
\* rejection is caught and it goes to results.failed; then the loop goes on.
UnlinkComplete(p) ==
    /\ pc = "delete"
    /\ p \in ioUnlink
    /\ LET ok == p \in DOMAIN tree /\ p \notin locked
           next == NextToUnlink(Len(unlinked), ok)
       IN /\ IF ok
             THEN /\ tree' = Unlink(tree, p)
                  /\ deleted' = Append(deleted, p)
                  /\ UNCHANGED failed
             ELSE /\ failed' = Append(failed, [path |-> p, error |-> "rejected"])
                  /\ UNCHANGED <<tree, deleted>>
          /\ IF next # 0
             THEN /\ ioUnlink' = {filesToDelete[next]}
                  /\ unlinked' = Append(unlinked, filesToDelete[next])
                  /\ UNCHANGED pc
             ELSE /\ ioUnlink' = {}
                  /\ pc' = "done"
                  /\ UNCHANGED unlinked
    /\ UNCHANGED <<digest, scans, ioStat, ioReaddir, files, skippedFiles,
                   warned, pathToSize, sizeMap, hashMap, group, i, ioHash, results,
                   contentDuplicates, report, filesToDelete, totalBytes, run, prev>>
    /\ UNCHANGED <<tree0, deleteFlag, cwd, locked>>

\* The program is started again on the same tree; what the run before
\* produced is kept for comparison.
Rerun ==
    /\ pc = "done"
    /\ run = 1
    /\ run' = 2
    /\ prev' = Append(prev, [contentDuplicates |-> contentDuplicates,
                             filesToDelete |-> filesToDelete,
                             totalBytes |-> totalBytes,
                             tree0 |-> tree0])
    /\ pc' = "getFileList"
    /\ scans' = <<>>
    /\ ioStat' = {}
    /\ ioReaddir' = {}
    /\ files' = <<>>
    /\ skippedFiles' = 0
    /\ warned' = {}
    /\ pathToSize' = <<>>
    /\ sizeMap' = <<>>
    /\ hashMap' = <<>>
    /\ group' = 0
    /\ i' = 0
    /\ ioHash' = {}
    /\ results' = <<>>
    /\ contentDuplicates' = <<>>
    /\ report' = <<>>
    /\ filesToDelete' = <<>>
    /\ totalBytes' = 0
    /\ tree0' = tree
    /\ ioUnlink' = {}
    /\ unlinked' = <<>>
    /\ deleted' = <<>>
    /\ failed' = <<>>
    /\ UNCHANGED <<tree, digest, deleteFlag, cwd, locked>>

Next ==
    \/ StatRoot
    \/ \E d \in ioReaddir : ReaddirComplete(d)
    \/ \E p \in ioStat : StatComplete(p)
    \/ GroupBySize
    \/ \E p \in ioHash : HashComplete(p)
    \/ ReportAndPlan
    \/ \E p \in ioUnlink : UnlinkComplete(p)
    \/ Rerun

Spec == Init /\ [][Next]_vars

\* the steps of one run after the validation of the root
RunStep ==
    \/ \E d \in ioReaddir : ReaddirComplete(d)
    \/ \E p \in ioStat : StatComplete(p)
    \/ GroupBySize
    \/ \E p \in ioHash : HashComplete(p)
    \/ ReportAndPlan
    \/ \E p \in ioUnlink : UnlinkComplete(p)

\* RunStep is enabled: an operation main awaits is in flight, or main is at
\* a step it takes with no await (the guards of the actions of RunStep).
Awaited ==
    \/ pc = "scan" /\ (ioReaddir # {} \/ ioStat # {})
    \/ pc = "size"
    \/ pc = "content" /\ ioHash # {}
    \/ pc = "report"
    \/ pc = "delete" /\ ioUnlink # {}

\* Every file-system operation that was issued completes, and main runs on
\* when nothing it awaits is left; whether the program is started again is
\* up to the user.  This is weak fairness of StatRoot and of RunStep, the
\* latter with its enabling condition written out as Awaited.
FairSpec ==
    /\ Init
    /\ [][Next]_vars
    /\ WF_vars(StatRoot)
    /\ ([]<>(~Awaited) \/ []<><<RunStep>>_vars)

(***************************************************************************)
(* What the properties are stated with.                                    *)
(***************************************************************************)
\* a comes before b as strings are compared: code unit by code unit,
\* upper case before lower case, a proper prefix first
RECURSIVE PathBefore(_, _)
PathBefore(a, b) ==
    IF b = <<>> THEN FALSE
    ELSE IF a = <<>> THEN TRUE
    ELSE IF Head(a) # Head(b) THEN Head(a) < Head(b)
    ELSE PathBefore(Tail(a), Tail(b))

\* the paths of all groups of a Map of groups
GroupPaths(m) == UNION {Range(m[n].val) : n \in DOMAIN m}

\* a Map of groups as the set of its pairs <<key, set of members>>
GroupSets(m) == {<<m[n].key, Range(m[n].val)>> : n \in DOMAIN m}

\* the positions of the deletion sequence plan that hold a member of S
Positions(plan, S) == {k \in DOMAIN plan : plan[k] \in S}

\* the entries of plan that are in S, in the order of plan
Restrict(plan, S) == SelectSeq(plan, LAMBDA x : x \in S)

Enumerated == {files[k].path : k \in DOMAIN files}

\* what stat(p) saw when this run started
At(p) == StatIn(tree0, p)

\* main has returned after generateDeletionPlan and formatDeletionPlan
Planned == pc = "done" /\ contentDuplicates # <<>>

RECURSIVE SumOver(_, _)
SumOver(S, f) ==
    IF S = {} THEN 0
    ELSE LET x == CHOOSE y \in S : TRUE IN f[x] + SumOver(S \ {x}, f)

(***************************************************************************)
(* C1.  For every ContentGroup given to generateDeletionPlan, exactly one  *)
(* member, the keeper, is absent from the deletion sequence and every      *)
(* other member is in the whole sequence exactly once; the keeper is the   *)
(* smallest member in case-sensitive lexicographic order of the path, and  *)
(* the other members of the group are contiguous and ascending.            *)
(***************************************************************************)
C1_KeeperIsSmallest ==
    Planned =>
        \A n \in DOMAIN contentDuplicates :
            LET members == Range(contentDuplicates[n].val)
                at == Positions(filesToDelete, members)
            IN \E keeper \in members :
                /\ Positions(filesToDelete, {keeper}) = {}
                /\ \A m \in members \ {keeper} :
                      /\ Cardinality(Positions(filesToDelete, {m})) = 1
                      /\ PathBefore(keeper, m)
                /\ \A a \in at, b \in at :
                      a < b => /\ \A k \in a..b : k \in at
                               /\ PathBefore(filesToDelete[a], filesToDelete[b])

\* a planned group of three members whose smallest is "/r/B" ("B" sorts
\* before "a" only when case counts), found in another order
C1_Witness ==
    /\ Planned
    /\ \E n \in DOMAIN contentDuplicates :
          /\ Len(contentDuplicates[n].val) = 3
          /\ {PathA, PathB} \subseteq Range(contentDuplicates[n].val)
          /\ contentDuplicates[n].val[1] # PathB
          /\ PathA \in Range(filesToDelete)
          /\ PathB \notin Range(filesToDelete)

(***************************************************************************)
(* C2.  Two runs on the same unchanged tree.  As claimed: identical        *)
(* ContentGroups and an identical deletion plan, with the same order of    *)
(* the entries across the whole sequence and the same total, for every     *)
(* completion order of the stat calls and of the hashes.                   *)
(***************************************************************************)
C2_IdenticalPlan ==
    (pc = "done" /\ run = 2 /\ tree0 = prev[1].tree0) =>
        /\ GroupSets(contentDuplicates) = GroupSets(prev[1].contentDuplicates)
        /\ filesToDelete = prev[1].filesToDelete
        /\ totalBytes = prev[1].totalBytes

(***************************************************************************)
(* C2 as amended.  Two runs on the same unchanged tree yield the same      *)
(* ContentGroups as sets, the same keepers, the same deletion entries with *)
(* the same order inside every group, and the same total; the order in     *)
(* which the groups follow each other in the sequence may differ.          *)
(***************************************************************************)
C2_SamePlanUpToGroupOrder ==
    (pc = "done" /\ run = 2 /\ tree0 = prev[1].tree0) =>
        LET before == prev[1]
        IN /\ GroupSets(contentDuplicates) = GroupSets(before.contentDuplicates)
           /\ GroupPaths(contentDuplicates) \ Range(filesToDelete)
                = GroupPaths(before.contentDuplicates) \ Range(before.filesToDelete)
           /\ Len(filesToDelete) = Len(before.filesToDelete)
           /\ Range(filesToDelete) = Range(before.filesToDelete)
           /\ \A g \in GroupSets(contentDuplicates) :
                 Restrict(filesToDelete, g[2]) = Restrict(before.filesToDelete, g[2])
           /\ totalBytes = before.totalBytes

\* the second run ended with the groups of the plan in another order
C2_Witness ==
    /\ pc = "done"
    /\ run = 2
    /\ tree0 = prev[1].tree0
    /\ Len(filesToDelete) >= 2
    /\ filesToDelete # prev[1].filesToDelete

(***************************************************************************)
(* C3.  Every SizeGroup returned by findDuplicatesBySize and every         *)
(* ContentGroup returned by findDuplicatesByContent has at least two       *)
(* members, also in runs where files fail to hash.                         *)
(***************************************************************************)
C3_GroupsOfTwoOrMore ==
    /\ \A n \in DOMAIN sizeMap : Cardinality(Range(sizeMap[n].val)) >= 2
    /\ \A n \in DOMAIN contentDuplicates :
          Cardinality(Range(contentDuplicates[n].val)) >= 2

\* verification is over, a file of a size group failed to hash, a digest was
\* left with one member and dropped, and a group remains
C3_Witness ==
    /\ pc = "done"
    /\ \E p \in GroupPaths(sizeMap) : ~At(p).readable
    /\ \E n \in DOMAIN hashMap : Len(hashMap[n].val) = 1
    /\ contentDuplicates # <<>>

(***************************************************************************)
(* C4.  Monotonic narrowing: the paths of the ContentGroups are among the  *)
(* enumerated paths whose size another enumerated path shares, which are   *)
(* among the enumerated paths; a file of unique size is in no SizeGroup,   *)
(* no ContentGroup and no deletion plan.                                   *)
(***************************************************************************)
SharedSize ==
    {files[k].path : k \in {n \in DOMAIN files :
        \E m \in DOMAIN files : m # n /\ files[m].size = files[n].size}}

C4_MonotonicNarrowing ==
    /\ GroupPaths(contentDuplicates) \subseteq SharedSize
    /\ SharedSize \subseteq Enumerated
    /\ GroupPaths(sizeMap) \subseteq SharedSize
    /\ GroupPaths(hashMap) \subseteq SharedSize
    /\ Range(filesToDelete) \subseteq SharedSize

\* a planned run in which an enumerated file has a size of its own
C4_Witness ==
    /\ Planned
    /\ filesToDelete # <<>>
    /\ Enumerated \ SharedSize # {}

(***************************************************************************)
(* C5.  Two files of the same size and of different digests are never in   *)
(* one ContentGroup: every member of a ContentGroup was hashed             *)
(* successfully, to the digest that is the key of its group.               *)
(***************************************************************************)
C5_MembersShareTheKeyDigest ==
    \A n \in DOMAIN contentDuplicates :
        /\ \A p \in Range(contentDuplicates[n].val) :
              /\ At(p).kind = "file"
              /\ At(p).readable
              /\ digest[At(p).content] = contentDuplicates[n].key
        /\ \A p, q \in Range(contentDuplicates[n].val) :
              At(p).size = At(q).size
                  => digest[At(p).content] = digest[At(q).content]

\* files of one size and two digests, verified into two groups
C5_Witness ==
    /\ pc = "done"
    /\ \E m, n \in DOMAIN contentDuplicates :
          /\ m # n
          /\ At(contentDuplicates[m].val[1]).size
                = At(contentDuplicates[n].val[1]).size

(***************************************************************************)
(* C6.  A file whose hash fails is in no ContentGroup and not in the plan  *)
(* and adds nothing to the total; the other members of its batch and of    *)
(* its size group are hashed and grouped all the same; a digest left with  *)
(* at most one hashed member has no group in the output.                   *)
(***************************************************************************)
FailedToHash == {p \in GroupPaths(sizeMap) : ~At(p).readable}

HashedTo(h) ==
    {p \in GroupPaths(sizeMap) : At(p).readable /\ digest[At(p).content] = h}

C6_HashFailureIsSkipped ==
    pc \in {"report", "done"} =>
        /\ FailedToHash \cap GroupPaths(contentDuplicates) = {}
        /\ FailedToHash \cap GroupPaths(hashMap) = {}
        /\ FailedToHash \cap Range(filesToDelete) = {}
        /\ totalBytes = SumOver(Range(filesToDelete) \ FailedToHash,
                                [p \in DOMAIN tree0 |-> At(p).size])
        /\ \A h \in Digests :
              /\ HashedTo(h) # {} => <<h, HashedTo(h)>> \in GroupSets(hashMap)
              /\ IF Cardinality(HashedTo(h)) <= 1
                 THEN ~MapHas(contentDuplicates, h)
                 ELSE <<h, HashedTo(h)>> \in GroupSets(contentDuplicates)

\* "/r/a" failed to hash; "/r/d/a", of the same content, was hashed and its
\* group is gone; a group of other files is in the output
C6_Witness ==
    /\ pc = "done"
    /\ PathA \in FailedToHash
    /\ PathA \in warned
    /\ At(PathDA).content = At(PathA).content
    /\ PathDA \in GroupPaths(hashMap) \ GroupPaths(contentDuplicates)
    /\ filesToDelete # <<>>

(***************************************************************************)
(* C7.  Every member of a ContentGroup belonged to the same SizeGroup: no  *)
(* ContentGroup holds two paths of different sizes, whatever the digest    *)
(* function, also one under which files of different sizes collide.        *)
(***************************************************************************)
C7_GroupOfOneSize ==
    \A n \in DOMAIN contentDuplicates :
        \A p, q \in Range(contentDuplicates[n].val) :
            pathToSize[p] = pathToSize[q]

(***************************************************************************)
(* C8.  The total of formatDeletionPlan is the sum, over the entries of    *)
(* the deletion sequence, of the size the enumeration recorded for the     *)
(* path: 0 for the empty plan and, for two equal files beside a third of   *)
(* the same size and other content, the size of one file.                  *)
(***************************************************************************)
RecordedSize(p) == files[CHOOSE k \in DOMAIN files : files[k].path = p].size

\* a.txt and b.txt are "/r/a" and "/r/d/a", c.txt is "/r/B"; files are one
\* byte long instead of five
Scenario ==
    /\ tree0 = ContentTree(<<1, 1>>, <<1, 2>>, <<2, 1>>, {})
    /\ digest[<<1, 1>>] # digest[<<1, 2>>]

C8_TotalIsSumOfSizes ==
    pc = "done" =>
        /\ totalBytes =
              SumOver(DOMAIN filesToDelete,
                      [k \in DOMAIN filesToDelete |-> RecordedSize(filesToDelete[k])])
        /\ filesToDelete = <<>> => totalBytes = 0
        /\ Scenario => filesToDelete = <<PathDA>> /\ totalBytes = 1

\* a plan of one file of one byte and one file of two bytes
C8_Witness ==
    /\ Planned
    /\ Len(filesToDelete) = 2
    /\ totalBytes = 3

(***************************************************************************)
(* C9.  No FileRecord has a path with a component below the root that is   *)
(* in the exclusion set, at any depth: an excluded entry gives no file and *)
(* nothing below it is visited, no stat and no readdir is issued there.    *)
(***************************************************************************)
HasExcludedComponent(p) ==
    \E a \in 2..Len(p) :
        LET b == a + Len(EaDir) - 1
        IN /\ p[a - 1] = Slash
           /\ b <= Len(p)
           /\ SubSeq(p, a, b) = EaDir
           /\ b = Len(p) \/ p[b + 1] = Slash

C9_ExcludedNeverVisited ==
    \A p \in Enumerated \cup ioStat \cup ioReaddir \cup DOMAIN scans \cup warned :
        ~HasExcludedComponent(p)

\* the walk is over; "/r/d/e" holds "@eaDir" and "c", and "c" was emitted
C9_Witness ==
    /\ pc = "size"
    /\ Join(Join(PathDE, EaDir), NameA) \in DOMAIN tree0
    /\ PathDEC \in Enumerated
    /\ skippedFiles >= 2

(***************************************************************************)
(* C10.  A failed stat of an entry or a failed listing of a subdirectory   *)
(* removes only that entry or that subtree: the traversal goes on, and     *)
(* every other entry that is not excluded and not a directory, whose stat  *)
(* succeeds and whose ancestors were listed, is emitted exactly once.      *)
(***************************************************************************)
\* the last component of p
BaseName(p) == SubSeq(p, Len(Parent(p)) + 2, Len(p))

\* p is an entry of a listed directory that is itself reached by listings
RECURSIVE Listed(_)
Listed(p) ==
    \/ p = Root
    \/ /\ Len(p) > Len(Root)
       /\ LET d == Parent(p)
          IN /\ d \in DOMAIN tree0
             /\ At(d).kind = "dir"
             /\ At(d).listable
             /\ BaseName(p) \in Range(At(d).entries)
             /\ BaseName(p) # EaDir
             /\ Listed(d)

ExpectedFiles == {p \in DOMAIN tree0 : At(p).kind = "file" /\ p # Root /\ Listed(p)}

C10_FailuresAreLocal ==
    /\ pc \in {"size", "content", "report", "delete", "done"} =>
          LET expected == ExpectedFiles
          IN /\ Enumerated = expected
             /\ Len(files) = Cardinality(expected)
    /\ pc = "fatal" => ~(At(Root).kind = "dir" /\ At(Root).listable)

\* the stat of "/r/a" failed and "/r/d" could not be listed; the files of the
\* sibling directory "/r/e" were emitted
C10_Witness ==
    /\ pc = "size"
    /\ At(PathD).kind = "dir"
    /\ {PathA, PathD} \subseteq warned
    /\ Enumerated = {PathEA, PathEC}

(***************************************************************************)
(* C11.  Only the root-validation error aborts the pipeline: the run ends  *)
(* in the fatal state if and only if the root path does not resolve to a   *)
(* directory; a failed readdir, stat or hash is skipped and the run goes   *)
(* on to a complete result.                                                *)
(***************************************************************************)
C11_FatalOnlyForRoot ==
    /\ pc = "fatal" => At(Root).kind # "dir"
    /\ At(Root).kind # "dir" => pc \in {"getFileList", "fatal"}

(***************************************************************************)
(* C12.  If the root path does not resolve to a directory the run fails    *)
(* at once with no partial results: no directory is listed, no FileRecord  *)
(* is emitted, nothing is grouped, hashed, reported, planned or deleted.   *)
(***************************************************************************)
C12_RootFailureIsImmediate ==
    At(Root).kind # "dir" =>
        /\ pc \in {"getFileList", "fatal"}
        /\ ioReaddir = {} /\ ioStat = {} /\ scans = <<>> /\ warned = {}
        /\ files = <<>> /\ pathToSize = <<>> /\ sizeMap = <<>>
        /\ ioHash = {} /\ hashMap = <<>> /\ contentDuplicates = <<>>
        /\ report = <<>> /\ filesToDelete = <<>>
        /\ ioUnlink = {} /\ unlinked = <<>> /\ tree = tree0

\* the root is a regular file and the run has ended with the fatal error
C12_Witness ==
    /\ pc = "fatal"
    /\ At(Root).kind = "file"

(***************************************************************************)
(* C14.  At every moment of a traversal, over the whole tree, the number   *)
(* of directory entries being processed (stat issued, and the processing   *)
(* with any recursion into the entry not finished) is at most the          *)
(* directory-entry batch width, also when several subdirectories of one    *)
(* batch are recursed into at the same time.                               *)
(***************************************************************************)
\* the entries whose callback has started and is not over
InProcess == UNION {scans[d].pending : d \in DOMAIN scans}

C14_WalkFanOutBounded ==
    /\ Cardinality(InProcess) <= WALK_BATCH_SIZE
    /\ Cardinality(ioStat) <= WALK_BATCH_SIZE

(***************************************************************************)
(* C15.  At every moment of verification at most the file-hash batch width *)
(* of hash computations are in flight, over all size groups: the hashes in *)
(* flight belong to one batch of one group, so no hash of the next batch   *)
(* or of the next group starts before every hash of the current batch has  *)
(* completed or failed.                                                    *)
(***************************************************************************)
C15_HashFanOutBounded ==
    /\ Cardinality(ioHash) <= HASH_BATCH_SIZE
    /\ ioHash # {} =>
          /\ pc = "content"
          /\ group \in DOMAIN sortedGroups
          /\ LET paths == sortedGroups[group].val
                 current == {paths[k] : k \in (i + 1)..(i + HASH_BATCH_SIZE)
                                                 \cap DOMAIN paths}
             IN /\ ioHash \subseteq current
                /\ DOMAIN results = current \ ioHash
                /\ \A g \in 1..group :
                      \A k \in DOMAIN sortedGroups[g].val :
                          (g < group \/ k <= i) =>
                              sortedGroups[g].val[k] \notin ioHash \cup DOMAIN results

\* the hashes of the second batch of a size group are in flight, after the
\* first batch was grouped
C15_Witness ==
    /\ pc = "content"
    /\ i = HASH_BATCH_SIZE
    /\ Cardinality(ioHash) = HASH_BATCH_SIZE
    /\ hashMap # <<>>

(***************************************************************************)
(* C16.  Stages never overlap: no file hash starts before the walker has   *)
(* finished every stat and readdir and the size grouping is complete; the  *)
(* deletion plan is computed only after every hash has completed or        *)
(* failed; no unlink is issued before the plan is complete.                *)
(***************************************************************************)
WalkerIdle == ioStat = {} /\ ioReaddir = {} /\ scans = <<>>

\* every member of every size group was hashed: grouped, or failed and warned
AllHashed == GroupPaths(sizeMap) \subseteq GroupPaths(hashMap) \cup warned

C16_StagesDoNotOverlap ==
    /\ (pc = "content" \/ ioHash # {} \/ hashMap # <<>>) =>
          /\ WalkerIdle
          /\ GroupPaths(sizeMap) \subseteq Enumerated
          /\ \A p \in SharedSize : p \in GroupPaths(sizeMap)
          /\ DOMAIN pathToSize = Enumerated
    /\ (pc \in {"report", "delete"} \/ report # <<>> \/ filesToDelete # <<>>) =>
          /\ WalkerIdle
          /\ ioHash = {}
          /\ AllHashed
    /\ (pc = "delete" \/ ioUnlink # {} \/ unlinked # <<>>) =>
          /\ ioHash = {}
          /\ AllHashed
          /\ Range(filesToDelete) =
                GroupPaths(contentDuplicates)
                    \ {SortPaths(contentDuplicates[n].val)[1] : n \in DOMAIN contentDuplicates}
          /\ report # <<>>

\* an unlink is in flight, after a walk of two directories and a failed
\* hash
C16_Witness ==
    /\ pc = "delete"
    /\ ioUnlink # {}
    /\ warned # {}
    /\ Len(files) > Len(filesToDelete) + 1

(***************************************************************************)
(* C17.  deleteFiles attempts each path of the deletion plan exactly once, *)
(* in plan order and one at a time; when it returns, deleted and failed    *)
(* partition the plan; a failed unlink never stops the attempts on the     *)
(* remaining paths; no path outside the plan, in particular no keeper, is  *)
(* ever unlinked.                                                          *)
(***************************************************************************)
FailedPaths == {failed[k].path : k \in DOMAIN failed}

Keepers == {SortPaths(contentDuplicates[n].val)[1] : n \in DOMAIN contentDuplicates}

C17_DeleteFilesFollowsThePlan ==
    /\ Cardinality(ioUnlink) <= 1
    /\ Len(unlinked) <= Len(filesToDelete)
    /\ unlinked = SubSeq(filesToDelete, 1, Len(unlinked))
    /\ Cardinality(Range(unlinked)) = Len(unlinked)
    /\ Range(unlinked) \cap Keepers = {}
    /\ Range(deleted) \cup FailedPaths = Range(unlinked) \ ioUnlink
    /\ Range(deleted) \cap FailedPaths = {}
    /\ Len(deleted) + Len(failed) + Cardinality(ioUnlink) = Len(unlinked)
    /\ (DOMAIN tree0) \ (DOMAIN tree) = Range(deleted)
    /\ ioUnlink # {} => pc = "delete" /\ ioUnlink = {unlinked[Len(unlinked)]}
    /\ (pc = "done" /\ deleteFlag) =>
          /\ unlinked = filesToDelete
          /\ Range(deleted) \cup FailedPaths = Range(filesToDelete)

\* deleteFiles has returned: the first unlink was rejected and a later path
\* of the plan was deleted
C17_Witness ==
    /\ pc = "done"
    /\ Len(filesToDelete) >= 2
    /\ failed # <<>>
    /\ failed[1].path = filesToDelete[1]
    /\ deleted # <<>>

(***************************************************************************)
(* C18.  Enumeration, size grouping, content verification and plan         *)
(* construction leave the scanned tree unchanged.  As claimed: in a run    *)
(* without --delete no unlink is ever issued, so the set of files in the   *)
(* tree at termination equals the set at start.                            *)
(***************************************************************************)
C18_DryRunLeavesTheTree ==
    /\ pc \in {"getFileList", "scan", "size", "content", "report"} => tree = tree0
    /\ ~deleteFlag =>
          /\ ioUnlink = {} /\ unlinked = <<>> /\ deleted = <<>> /\ failed = <<>>
          /\ pc \in {"done", "fatal"} => DOMAIN tree = DOMAIN tree0

(***************************************************************************)
(* C18 as amended.  Enumeration, size grouping and content verification    *)
(* leave the tree unchanged; in a run without --delete no unlink is ever   *)
(* issued and no file that was in the tree is removed or modified; the     *)
(* files at termination are those at start and, when the working directory *)
(* is a directory of the tree and the run found duplicates, the report     *)
(* file that main creates there.                                           *)
(***************************************************************************)
C18_DryRunOnlyAddsTheReport ==
    /\ pc \in {"getFileList", "scan", "size", "content", "report"} => tree = tree0
    /\ ~deleteFlag =>
          /\ ioUnlink = {} /\ unlinked = <<>> /\ deleted = <<>> /\ failed = <<>>
          /\ DOMAIN tree0 \subseteq DOMAIN tree
          /\ \A p \in DOMAIN tree0 :
                /\ tree[p].kind = tree0[p].kind
                /\ tree[p].content = tree0[p].content
                /\ tree[p].target = tree0[p].target
                /\ \A e \in Range(tree0[p].entries) : e \in Range(tree[p].entries)
          /\ (DOMAIN tree) \ (DOMAIN tree0) \subseteq
                (IF report # <<>> THEN {Join(cwd, ReportName(run))} ELSE {})
          /\ cwd \notin DOMAIN tree0 => tree = tree0

\* a dry run that found duplicates has ended, and the root, which is the
\* working directory, holds one file more than at the start
C18_Witness ==
    /\ pc = "done"
    /\ ~deleteFlag
    /\ cwd = Root
    /\ filesToDelete # <<>>
    /\ (DOMAIN tree) \ (DOMAIN tree0) # {}

(***************************************************************************)
(* C19.  Executing the whole deletion plan never removes the last          *)
(* accessible copy of a content: for every ContentGroup, after every       *)
(* planned path has been unlinked the keeper path still resolves to a      *)
(* readable file with the group's content, also when two enumerated paths  *)
(* denote the same file, one of them being a symbolic link to the other.   *)
(***************************************************************************)
C19_KeeperStillReadable ==
    (pc = "done" /\ deleteFlag /\ Range(deleted) = Range(filesToDelete)) =>
        \A n \in DOMAIN contentDuplicates :
            LET keeper == SortPaths(contentDuplicates[n].val)[1]
            IN /\ Stat(keeper).kind = "file"
               /\ Stat(keeper).readable
               /\ digest[Stat(keeper).content] = contentDuplicates[n].key

(***************************************************************************)
(* C20.  The written report and the deletion plan agree: the sequence of   *)
(* paths written as [DELETE] lines equals the sequence returned by         *)
(* generateDeletionPlan, and the paths written as [KEEP] lines are exactly *)
(* the ContentGroup members absent from the plan, one per group.           *)
(***************************************************************************)
LinePaths(tag) ==
    LET lines == SelectSeq(report, LAMBDA l : l.tag = tag)
    IN [k \in DOMAIN lines |-> lines[k].path]

C20_ReportAgreesWithPlan ==
    pc \in {"delete", "done"} =>
        /\ LinePaths("DELETE") = filesToDelete
        /\ Range(LinePaths("KEEP")) = GroupPaths(contentDuplicates) \ Range(filesToDelete)
        /\ Len(LinePaths("KEEP")) = Len(contentDuplicates)
        /\ \A n \in DOMAIN contentDuplicates :
              Cardinality(Range(contentDuplicates[n].val) \cap Range(LinePaths("KEEP"))) = 1

\* report and plan are written for two groups, one of them found with its
\* keeper not in the first place
C20_Witness ==
    /\ pc = "done"
    /\ Len(contentDuplicates) = 2
    /\ Len(report) = 6
    /\ \E n \in DOMAIN contentDuplicates :
          contentDuplicates[n].val[1] \in Range(filesToDelete)

(***************************************************************************)
(* C13.  When every issued readdir, stat, file read and unlink completes,  *)
(* with success or failure, every run terminates, either with a complete   *)
(* (possibly empty) result, nothing left in flight, or with the fatal      *)
(* error of getFileList; the deletion plan never contains a path whose     *)
(* hash failed.                                                            *)
(***************************************************************************)
Terminated == pc \in {"done", "fatal"}

NothingInFlight ==
    ioStat = {} /\ ioReaddir = {} /\ scans = <<>> /\ ioHash = {} /\ ioUnlink = {}

C13_RunTerminates ==
    /\ (pc = "getFileList") ~> Terminated
    /\ [](pc = "done" => NothingInFlight)
    /\ [](Range(filesToDelete) \cap (warned \cap GroupPaths(sizeMap)) = {})

\* a run has ended with a plan although a member of a size group failed to
\* hash, and nothing is in flight
C13_Witness ==
    /\ pc = "done"
    /\ NothingInFlight
    /\ warned \cap GroupPaths(sizeMap) # {}
    /\ filesToDelete # <<>>
    /\ run = 2

====
